---- MODULE Spec2Model ----
(***************************************************************************)
(* The analysis workflow of src/App.tsx (Finger Count AI): the four React  *)
(* state cells image, analysis, loading and error, the asynchronous file   *)
(* reads started by handleImageUpload, the remote generateContent calls    *)
(* started by analyzeFingers, and the render conditions that decide which  *)
(* buttons the user can press.                                             *)
(*                                                                         *)
(* JavaScript strings the code takes apart (the data URI) are sequences of *)
(* one-character strings; strings the code only stores and tests for       *)
(* truthiness (response text, error message) are TLA+ strings.             *)
(*                                                                         *)
(* One step is one run of JavaScript to completion: a click handler up to  *)
(* its await, a FileReader callback, or the continuation after the await.  *)
(* React commits the state updates of a run and re-renders before the next *)
(* event is dispatched, so the render conditions are read off the cells.   *)
(* Spec is the page (intents only through rendered controls); SpecDirect   *)
(* dispatches every intent to its handler in any state.                    *)
(***************************************************************************)
EXTENDS Integers, Sequences, FiniteSets, TLC

VARIABLES
    image,      \* useState<string|null>: the data URI held, or nullURI
    analysis,   \* useState<string|null>: the stored result text, or null
    loading,    \* useState(false)
    error,      \* useState<string|null>: the stored failure message, or null
    reads,      \* FileReaders whose onloadend has not fired yet, in selection order
    inflight,   \* generateContent promises not settled yet, in issue order
    apiKey,     \* process.env.API_KEY || '' (fixed for the life of the page)
    lastFailed, \* history: the request of the most recent failed analysis (NoRequest
                \* when it failed before a request was built)
    event,      \* history: the handler or callback that ran last, with its input
    latest      \* history: the file selected most recently, the position of its read
                \* in reads (0 once that read has completed) and whether it succeeded

vars == <<image, analysis, loading, error, reads, inflight, apiKey, lastFailed, event, latest>>

ui == <<image, analysis, loading, error>>

----------------------------------------------------------------------------
(* Bounds of the model *)

MaxReads == 2       \* file reads pending at once
MaxInFlight == 2    \* remote calls pending at once

----------------------------------------------------------------------------
(* JavaScript values *)

null == "<null>"            \* null in a string|null cell that holds an opaque text
undefined == "<undefined>"  \* an absent text / message property
nullURI == <<"<null>">>     \* null in the image cell (not a sequence of characters)
undefinedStr == <<"<undefined>">>  \* arr[i] past the end of a split() result

\* !x for an opaque text: null, undefined and "" are falsy
Falsy(x) == x = null \/ x = undefined \/ x = ""

\* !x for a character string: null, undefined and "" are falsy
FalsyStr(s) == s = nullURI \/ s = undefinedStr \/ s = <<>>

\* a || b
OrElse(a, b) == IF Falsy(a) THEN b ELSE a

----------------------------------------------------------------------------
(* String.prototype.split with a one-character separator *)

RECURSIVE SplitFrom(_, _, _, _)
SplitFrom(s, sep, i, cur) ==
    IF i > Len(s) THEN <<cur>>
    ELSE IF s[i] = sep THEN <<cur>> \o SplitFrom(s, sep, i + 1, <<>>)
    ELSE SplitFrom(s, sep, i + 1, Append(cur, s[i]))

Split(s, sep) == SplitFrom(s, sep, 1, <<>>)

\* arr[k] with JavaScript's 0-based index: undefined past the end
At(arr, k) == IF k + 1 <= Len(arr) THEN arr[k + 1] ELSE undefinedStr

----------------------------------------------------------------------------
(* FileReader.readAsDataURL: data:<type>;base64,<base64 of the bytes> *)

B64 == << "A","B","C","D","E","F","G","H","I","J","K","L","M","N","O","P",
          "Q","R","S","T","U","V","W","X","Y","Z","a","b","c","d","e","f",
          "g","h","i","j","k","l","m","n","o","p","q","r","s","t","u","v",
          "w","x","y","z","0","1","2","3","4","5","6","7","8","9","+","/" >>

B64Char(n) == B64[n + 1]

RECURSIVE Base64(_)
Base64(bytes) ==
    IF Len(bytes) = 0 THEN <<>>
    ELSE IF Len(bytes) = 1 THEN
        << B64Char(bytes[1] \div 4), B64Char((bytes[1] % 4) * 16), "=", "=" >>
    ELSE IF Len(bytes) = 2 THEN
        << B64Char(bytes[1] \div 4),
           B64Char((bytes[1] % 4) * 16 + bytes[2] \div 16),
           B64Char((bytes[2] % 16) * 4), "=" >>
    ELSE
        << B64Char(bytes[1] \div 4),
           B64Char((bytes[1] % 4) * 16 + bytes[2] \div 16),
           B64Char((bytes[2] % 16) * 4 + bytes[3] \div 64),
           B64Char(bytes[3] % 64) >> \o Base64(SubSeq(bytes, 4, Len(bytes)))

DataScheme == <<"d","a","t","a",":">>
Base64Mark == <<";","b","a","s","e","6","4",",">>

readAsDataURL(file) == DataScheme \o file.type \o Base64Mark \o Base64(file.bytes)

\* What reader.result can be after a successful read.
\* A file whose type the browser does not know has type "": the File API returns
\* a data URL without a media type, Chromium and Firefox put application/octet-stream
OctetStream == <<"a","p","p","l","i","c","a","t","i","o","n","/",
                 "o","c","t","e","t","-","s","t","r","e","a","m">>

\* (and for a file of zero bytes Chromium returns the bare scheme "data:")
DataURLs(file) ==
    IF file.bytes = <<>>
    THEN {readAsDataURL(file), DataScheme}
    ELSE IF file.type = <<>>
    THEN {readAsDataURL(file), readAsDataURL([file EXCEPT !.type = OctetStream])}
    ELSE {readAsDataURL(file)}

\* The files the user can select: a PNG and a JPEG (their first bytes)
PngFile == [type |-> <<"i","m","a","g","e","/","p","n","g">>, bytes |-> <<137, 80, 78>>]
JpegFile == [type |-> <<"i","m","a","g","e","/","j","p","e","g">>, bytes |-> <<255, 216>>]

Files == {PngFile, JpegFile}

NoFile == [type |-> <<>>, bytes |-> <<>>, none |-> TRUE]   \* e.target.files?.[0] is undefined

\* Files of other kinds (the picker's accept="image/*" is only a hint): a text
\* file whose type carries a parameter, a file of unknown type, an empty file
TextFile ==
    [type |-> <<"t","e","x","t","/","p","l","a","i","n",";",
                "c","h","a","r","s","e","t","=","u","t","f","-","8">>,
     bytes |-> <<104, 105>>]
UntypedFile == [type |-> <<>>, bytes |-> <<0>>]
EmptyFile == [type |-> <<"i","m","a","g","e","/","p","n","g">>, bytes |-> <<>>]

AnyFiles == Files \cup {TextFile, UntypedFile, EmptyFile}

----------------------------------------------------------------------------
(* The request analyzeFingers builds from the held image *)

Model == "gemini-3-flash-preview"
ThinkingBudget == 1000
\* the fixed bilingual instruction (its English half; the text is never inspected)
Prompt == "Please carefully count how many fingers are in this image. Provide a clear count and briefly describe the hand configuration you see."

\* variant: the wrong part of the split is taken as the payload
RequestWrongPart(img) ==
    [ data |-> At(Split(img, ","), 0),
      mimeType |-> At(Split(At(Split(img, ";"), 0), ":"), 1),
      text |-> Prompt,
      model |-> Model,
      thinkingBudget |-> ThinkingBudget ]

Request(img) ==
    [ data |-> At(Split(img, ","), 1),
      mimeType |-> At(Split(At(Split(img, ";"), 0), ":"), 1),
      text |-> Prompt,
      model |-> Model,
      thinkingBudget |-> ThinkingBudget ]

NoRequest == [none |-> TRUE]

\* what the remote service can answer
Texts == {"4 fingers", "5 fingers, open palm", "", undefined}
Messages == {"quota exceeded", "", undefined}

Fulfilled(t) == [ok |-> TRUE, text |-> t]
Rejected(m) == [ok |-> FALSE, message |-> m]
Outcomes == {Fulfilled(t) : t \in Texts} \cup {Rejected(m) : m \in Messages}
NotThrown == [thrown |-> FALSE]

NoAnalysis == "No analysis generated."
FailedToAnalyze == "Failed to analyze the image. Please try again."

----------------------------------------------------------------------------
(* The state updates of analyzeFingers, on the cells it writes *)

Cells == [analysis |-> analysis, loading |-> loading, error |-> error]

Commit(st) ==
    /\ analysis' = st.analysis
    /\ loading' = st.loading
    /\ error' = st.error

\* variant: the guard on the image is missing
NoImageUnchecked(img) == FALSE

\* if (!image) return;
NoImage(img) == FalsyStr(img)

\* variant: the previous error is not cleared on entry
BeginKeepsError(st) == [st EXCEPT !.loading = TRUE, !.analysis = null]

\* setLoading(true); setError(null); setAnalysis(null);
Begin(st) == [st EXCEPT !.loading = TRUE, !.error = null, !.analysis = null]

\* variants: the response text is read from the wrong property; the fallback is missing
OnFulfilledWrongField(st, response) == [st EXCEPT !.analysis = NoAnalysis]
OnFulfilledNoFallback(st, response) == [st EXCEPT !.analysis = response.text]

\* setAnalysis(response.text || "No analysis generated.");
OnFulfilled(st, response) == [st EXCEPT !.analysis = OrElse(response.text, NoAnalysis)]

\* variant: the fallback phrase is missing
OnRejectedNoFallback(st, err) == [st EXCEPT !.error = err.message]

\* variant: an empty catch block, the failure is swallowed
OnRejectedSwallowed(st, err) == st

\* catch (err) { setError(err.message || "Failed to analyze ...") }
OnRejected(st, err) == [st EXCEPT !.error = OrElse(err.message, FailedToAnalyze)]

\* variant: loading is not cleared when the call settles
FinallyMissing(st) == st

\* finally { setLoading(false) }
Finally(st) == [st EXCEPT !.loading = FALSE]

Supersede(calls) == [k \in DOMAIN calls |-> [calls[k] EXCEPT !.superseded = TRUE]]

Remove(s, i) == SubSeq(s, 1, i - 1) \o SubSeq(s, i + 1, Len(s))

----------------------------------------------------------------------------
(* Handlers and callbacks *)

Init ==
    /\ image = nullURI
    /\ analysis = null
    /\ loading = FALSE
    /\ error = null
    /\ reads = <<>>
    /\ inflight = <<>>
    /\ apiKey \in {"key", ""}
    /\ lastFailed = NoRequest
    /\ event = [name |-> "init"]
    /\ latest = [file |-> NoFile, index |-> 0, loaded |-> FALSE]

\* variant: the read is started without testing that a file was chosen
handleImageUploadUnchecked(file) ==
    /\ Len(reads) < MaxReads
    /\ reads' = Append(reads, file)
    /\ latest' = [file |-> file, index |-> Len(reads) + 1, loaded |-> FALSE]
    /\ event' = [name |-> "upload", file |-> file]
    /\ UNCHANGED <<ui, inflight, apiKey, lastFailed>>

\* handleImageUpload with e.target.files?.[0] = file
handleImageUpload(file) ==
    /\ IF file # NoFile
       THEN /\ Len(reads) < MaxReads
            /\ reads' = Append(reads, file)
            /\ latest' = [file |-> file, index |-> Len(reads) + 1, loaded |-> FALSE]
       ELSE UNCHANGED <<reads, latest>>
    /\ event' = [name |-> "upload", file |-> file]
    /\ UNCHANGED <<ui, inflight, apiKey, lastFailed>>

\* reader.onloadend of the i-th pending read; reader.result is null when the read failed
onloadend(i, ok) ==
    /\ image' \in IF ok THEN DataURLs(reads[i]) ELSE {nullURI}
    /\ analysis' = null
    /\ error' = null
    /\ reads' = Remove(reads, i)
    /\ inflight' = Supersede(inflight)
    /\ event' = [name |-> "loadend", file |-> reads[i], ok |-> ok]
    /\ latest' = [latest EXCEPT !.index = IF @ = i THEN 0 ELSE IF @ > i THEN @ - 1 ELSE @,
                                 !.loaded = IF latest.index = i THEN ok ELSE @]
    /\ UNCHANGED <<loading, apiKey, lastFailed>>

\* variant: the client is constructed before the try block, so a throw of the
\* constructor is neither caught nor followed by the finally block
analyzeFingersCtorOutsideTry(intent) ==
    IF NoImage(image)
    THEN /\ event' = [name |-> intent, image |-> image, prior |-> Cells, thrown |-> NotThrown]
         /\ UNCHANGED <<ui, reads, inflight, apiKey, lastFailed, latest>>
    ELSE \/ /\ apiKey = ""
            /\ \E m \in Messages :
                 /\ Commit(Begin(Cells))
                 /\ event' = [name |-> intent, image |-> image, prior |-> Cells,
                              thrown |-> Rejected(m)]
            /\ lastFailed' = NoRequest
            /\ UNCHANGED <<image, reads, inflight, apiKey, latest>>
         \/ /\ Len(inflight) < MaxInFlight
            /\ Commit(Begin(Cells))
            /\ inflight' = Append(inflight,
                  [request |-> Request(image), apiKey |-> apiKey, superseded |-> FALSE])
            /\ event' = [name |-> intent, image |-> image, prior |-> Cells, thrown |-> NotThrown]
            /\ UNCHANGED <<image, reads, apiKey, lastFailed, latest>>

\* analyzeFingers up to its await: the guard, the three updates, the client
\* construction (which may throw when no key is configured) and the request
analyzeFingers(intent) ==
    IF NoImage(image)
    THEN /\ event' = [name |-> intent, image |-> image, prior |-> Cells, thrown |-> NotThrown]
         /\ UNCHANGED <<ui, reads, inflight, apiKey, lastFailed, latest>>
    ELSE \/ /\ apiKey = ""
            /\ \E m \in Messages :
                 /\ Commit(Finally(OnRejected(Begin(Cells), Rejected(m))))
                 /\ event' = [name |-> intent, image |-> image, prior |-> Cells,
                              thrown |-> Rejected(m)]
            /\ lastFailed' = NoRequest
            /\ UNCHANGED <<image, reads, inflight, apiKey, latest>>
         \/ /\ Len(inflight) < MaxInFlight
            /\ Commit(Begin(Cells))
            /\ inflight' = Append(inflight,
                  [request |-> Request(image), apiKey |-> apiKey, superseded |-> FALSE])
            /\ event' = [name |-> intent, image |-> image, prior |-> Cells, thrown |-> NotThrown]
            /\ UNCHANGED <<image, reads, apiKey, lastFailed, latest>>

\* variant: a rejected call is issued again by the client instead of being reported
settleRetries(i, o) ==
    /\ inflight[i].apiKey = "" => ~o.ok
    /\ IF o.ok
       THEN /\ Commit(Finally(OnFulfilled(Cells, o)))
            /\ inflight' = Remove(inflight, i)
       ELSE /\ UNCHANGED <<analysis, loading, error>>
            /\ inflight' = Append(Remove(inflight, i), inflight[i])
    /\ event' = [name |-> "settled", call |-> inflight[i], outcome |-> o]
    /\ UNCHANGED <<image, reads, apiKey, lastFailed, latest>>

\* analyzeFingers after its await: the i-th pending call settles with outcome o
settle(i, o) ==
    /\ inflight[i].apiKey = "" => ~o.ok
    /\ Commit(Finally(IF o.ok THEN OnFulfilled(Cells, o) ELSE OnRejected(Cells, o)))
    /\ inflight' = Remove(inflight, i)
    /\ lastFailed' = IF o.ok THEN lastFailed ELSE inflight[i].request
    /\ event' = [name |-> "settled", call |-> inflight[i], outcome |-> o]
    /\ UNCHANGED <<image, reads, apiKey, latest>>

\* variant: reset also clears the loading flag, without cancelling the call
resetClearsLoading ==
    /\ image' = nullURI
    /\ analysis' = null
    /\ error' = null
    /\ loading' = FALSE
    /\ inflight' = Supersede(inflight)
    /\ event' = [name |-> "reset"]
    /\ UNCHANGED <<reads, apiKey, lastFailed, latest>>

\* reset (the file input is unmounted while an image is held, so
\* fileInputRef.current is null and its value is not touched)
reset ==
    /\ image' = nullURI
    /\ analysis' = null
    /\ error' = null
    /\ inflight' = Supersede(inflight)
    /\ event' = [name |-> "reset"]
    /\ UNCHANGED <<loading, reads, apiKey, lastFailed, latest>>

----------------------------------------------------------------------------
(* What the render offers the user *)

\* variant: the Analyze panel is not hidden while loading
AnalyzeOfferedWhileLoading == ~FalsyStr(image) /\ Falsy(analysis)

UploadOffered == FalsyStr(image)
ResetOffered == ~FalsyStr(image)
AnalyzeOffered == ~FalsyStr(image) /\ Falsy(analysis) /\ ~loading
RetryOffered == ~FalsyStr(image) /\ ~Falsy(error)

\* the four panels of the right-hand column, rendered only with an image held
ReadyPanel == ~FalsyStr(image) /\ Falsy(analysis) /\ ~loading
LoadingPanel == ~FalsyStr(image) /\ loading
ErrorPanel == ~FalsyStr(image) /\ ~Falsy(error)
ResultPanel == ~FalsyStr(image) /\ ~Falsy(analysis)

----------------------------------------------------------------------------
(* The page: intents reach the handlers through the rendered controls *)

Upload == UploadOffered /\ \E f \in Files \cup {NoFile} : handleImageUpload(f)
ReadDone == \E i \in 1..Len(reads), ok \in BOOLEAN : onloadend(i, ok)
Analyze == AnalyzeOffered /\ analyzeFingers("analyze")
Retry == RetryOffered /\ analyzeFingers("retry")
CallDone == \E i \in 1..Len(inflight), o \in Outcomes : settle(i, o)
Reset == ResetOffered /\ reset

Next == Upload \/ ReadDone \/ Analyze \/ Retry \/ CallDone \/ Reset

Spec == Init /\ [][Next]_vars

(* The handlers alone: every intent is dispatched to its handler in any state *)

UploadIntent == \E f \in Files \cup {NoFile} : handleImageUpload(f)
AnalyzeIntent == analyzeFingers("analyze")
RetryIntent == analyzeFingers("retry")
ResetIntent == reset

NextDirect == UploadIntent \/ ReadDone \/ AnalyzeIntent \/ RetryIntent \/ CallDone \/ ResetIntent

SpecDirect == Init /\ [][NextDirect]_vars

(* The page with every issued call eventually replying or failing *)

SpecFair == Spec /\ WF_vars(CallDone)

(* The page with files of any kind selectable *)

UploadAny == UploadOffered /\ \E f \in AnyFiles \cup {NoFile} : handleImageUpload(f)

NextAnyFile == UploadAny \/ ReadDone \/ Analyze \/ Retry \/ CallDone \/ Reset

SpecAnyFile == Init /\ [][NextAnyFile]_vars

----------------------------------------------------------------------------
(* The workflow states of the specification, read off the four cells *)

Empty == FalsyStr(image) /\ Falsy(analysis) /\ Falsy(error) /\ ~loading
Ready == ~FalsyStr(image) /\ Falsy(analysis) /\ Falsy(error) /\ ~loading
Loading == loading
Success == ~Falsy(analysis)
Error == ~Falsy(error)

Active(s) ==
    CASE s = "Empty" -> Empty
      [] s = "Ready" -> Ready
      [] s = "Loading" -> Loading
      [] s = "Success" -> Success
      [] s = "Error" -> Error

WorkflowStates == {"Empty", "Ready", "Loading", "Success", "Error"}

IsIntent(e) == e.name \in {"analyze", "retry"}

----------------------------------------------------------------------------
(* Claims *)

\* C1: an analyze or retry intent cannot be issued while the workflow is
\* Loading (neither button is offered), and at most one remote request is
\* in flight at any time.
C1_NoDuplicateRequest ==
    /\ Len(inflight) <= 1
    /\ loading => ~AnalyzeOffered /\ ~RetryOffered

C1_Witness ==
    /\ loading
    /\ Len(inflight) = 1
    /\ ~FalsyStr(image)
    /\ IsIntent(event)

\* C2: an analyze or retry intent dispatched when no image is held changes
\* none of image, analysis, loading, error, starts no file read and issues no
\* request; every request is issued, and Loading entered, with an image held.
C2_NoImageNoOp ==
    [][ /\ (IsIntent(event') /\ FalsyStr(image)) =>
              UNCHANGED <<image, analysis, loading, error, reads, inflight>>
        /\ (Len(inflight') > Len(inflight) \/ (~loading /\ loading')) =>
              ~FalsyStr(image) ]_vars

C2_Witness ==
    /\ IsIntent(event)
    /\ FalsyStr(event.image)
    /\ Empty
    /\ inflight = <<>>

\* C3: a reset intent from any state yields Empty: no image, no result, no
\* error, and not Loading.
C3_ResetYieldsEmpty == [][event'.name = "reset" => Empty']_vars

\* C4: a completion of the remote call that has been superseded by a reset
\* or by a new upload leaves analysis and error unchanged.
C4_StaleCompletionIgnored ==
    [][(event'.name = "settled" /\ event'.call.superseded) =>
          UNCHANGED <<analysis, error>>]_vars

\* C5: exactly one workflow state is active: loading, a stored analysis and
\* a stored error are pairwise mutually exclusive.
C5_ExactlyOneState ==
    /\ Cardinality({s \in WorkflowStates : Active(s)}) = 1
    /\ ~(loading /\ ~Falsy(analysis))
    /\ ~(loading /\ ~Falsy(error))
    /\ ~(~Falsy(analysis) /\ ~Falsy(error))

C5_Witness ==
    /\ Loading
    /\ ~FalsyStr(image)
    /\ reads # <<>>
    /\ ~Success /\ ~Error /\ ~Ready /\ ~Empty

\* C6: every accepted analyze or retry intent (every entry into Loading)
\* leaves loading set and both the stored error and the stored analysis
\* cleared when the request is issued.
C6_EnterLoadingClears ==
    [][(IsIntent(event') /\ Len(inflight') > Len(inflight)) =>
          (loading' /\ error' = null /\ analysis' = null)]_vars

C6_Witness ==
    /\ IsIntent(event)
    /\ ~Falsy(event.prior.error)
    /\ ~Falsy(event.prior.analysis)
    /\ event.thrown = NotThrown
    /\ loading /\ error = null /\ analysis = null
    /\ inflight # <<>>

\* C7: when the in-flight request completes successfully with a non-empty
\* text t, analysis becomes exactly t, loading is false and no error is stored.
C7_SuccessStoresText ==
    [][(event'.name = "settled" /\ event'.outcome.ok /\ ~Falsy(event'.outcome.text)) =>
          (analysis' = event'.outcome.text /\ ~loading' /\ error' = null)]_vars

C7_Witness ==
    /\ event.name = "settled"
    /\ event.outcome = Fulfilled("4 fingers")
    /\ event.call.request.mimeType = PngFile.type
    /\ ~event.call.superseded
    /\ image = readAsDataURL(PngFile)
    /\ analysis = "4 fingers" /\ ~loading /\ error = null

\* C8: every failure of the analysis, whether thrown before the request is
\* issued or delivered by the pending call, stores the failure's message when
\* it is non-empty and the fallback phrase otherwise, clears loading, stores
\* no result, and with the image held leaves Retry and reset on offer.
C8_FailureBecomesError ==
    [][ LET thrown == IF event'.name = "settled" THEN event'.outcome
                      ELSE IF IsIntent(event') THEN event'.thrown
                      ELSE NotThrown
        IN  (thrown # NotThrown /\ ~thrown.ok) =>
               /\ error' = IF thrown.message \in {"", undefined, null}
                           THEN "Failed to analyze the image. Please try again."
                           ELSE thrown.message
               /\ ~loading'
               /\ analysis' = null
               /\ ~FalsyStr(image') => (RetryOffered' /\ ResetOffered') ]_vars

C8_Witness ==
    /\ event.name = "settled"
    /\ event.outcome = Rejected("quota exceeded")
    /\ error = "quota exceeded" /\ ~loading /\ analysis = null
    /\ RetryOffered /\ ResetOffered

\* C9: a successful response whose text is empty or absent stores the text
\* "No analysis generated." and no error; a stored analysis is never the
\* empty string.
C9_EmptyTextNormalized ==
    /\ [](analysis # "" /\ analysis # undefined)
    /\ [][(event'.name = "settled" /\ event'.outcome.ok /\ event'.outcome.text \in {"", undefined}) =>
             (analysis' = "No analysis generated." /\ error' = null /\ ~loading')]_vars

C9_Witness ==
    /\ event.name = "settled"
    /\ event.outcome.ok
    /\ event.outcome.text \in {"", undefined}
    /\ analysis = "No analysis generated."
    /\ error = null /\ ~loading

\* C10: a failed analysis leaves the held image unchanged; a retry from Error
\* that issues a request enters Loading with a request identical to the failed
\* one; if that request then succeeds with text t the analysis becomes t.
C10_RetryReissuesFailedRequest ==
    [][ /\ (event'.name = "settled" /\ ~event'.outcome.ok) => image' = image
        /\ (event'.name = "retry" /\ Error /\ lastFailed # NoRequest
               /\ Len(inflight') > Len(inflight)) =>
              (loading' /\ inflight'[Len(inflight')].request = lastFailed)
        /\ (event'.name = "settled" /\ event'.outcome.ok /\ ~Falsy(event'.outcome.text)) =>
              analysis' = event'.outcome.text ]_vars

\* the requests of a sequence of pending calls
Requests(calls) == [k \in DOMAIN calls |-> calls[k].request]

C12_NoFileNoOp ==
    [][(event'.name = "upload" /\ event'.file = NoFile) =>
          /\ UNCHANGED <<image, analysis, loading, error, reads, inflight>>
          /\ Empty => Empty']_vars

C12_Witness ==
    /\ event.name = "upload"
    /\ event.file = NoFile
    /\ Empty
    /\ reads = <<>>

\* C13: when the read of a selected file succeeds the workflow is in Ready:
\* the held image is the data URI of that file, no result and no error are
\* stored, and the workflow is not Loading.
C13_UploadYieldsReady ==
    [][(event'.name = "loadend" /\ event'.ok) =>
          (image' \in DataURLs(event'.file) /\ Ready')]_vars

\* C14: whenever the workflow is Loading it eventually is in Success or Error
\* and no longer Loading, given that every issued call eventually settles; and
\* Loading is left, and a result or error stored out of Loading, only by the
\* settling of a pending call.
C14_LoadingEnds ==
    /\ loading ~> (~loading /\ (Success \/ Error))
    /\ [][(loading /\ (~loading' \/ Success' \/ Error')) => event'.name = "settled"]_vars

C14_Witness ==
    /\ event.name = "settled"
    /\ event.outcome = Fulfilled("5 fingers, open palm")
    /\ Success /\ ~loading /\ ~Error
    /\ inflight = <<>>

\* the part of s after the first sep (undefined when s has no sep)
RECURSIVE AfterFirst(_, _)
AfterFirst(s, sep) ==
    IF s = <<>> THEN undefinedStr
    ELSE IF Head(s) = sep THEN Tail(s)
    ELSE AfterFirst(Tail(s), sep)

\* a content type that is a bare type/subtype
PlainType(type) == type # <<>> /\ \A k \in DOMAIN type : type[k] \notin {";", ":", ","}

\* the request an accepted intent has just issued
Issued == inflight'[Len(inflight')].request

\* C15 as stated: for any file, the MIME type and payload of the request
\* issued for its data URI are the file's content type and the base64 of its
\* bytes, the payload being the part of the URI after the first comma.
C15_RoundTripAnyFile ==
    [][(IsIntent(event') /\ Len(inflight') > Len(inflight)) =>
          \A f \in AnyFiles : image \in DataURLs(f) =>
              /\ Issued.mimeType = f.type
              /\ Issued.data = Base64(f.bytes)
              /\ Issued.data = AfterFirst(image, ",")]_vars

\* C15 as amended: the same for any file of at least one byte whose content
\* type is a bare type/subtype (non-empty, without ';', ':' or ',').
C15_RoundTripPlainType ==
    [][(IsIntent(event') /\ Len(inflight') > Len(inflight)) =>
          \A f \in AnyFiles : (image \in DataURLs(f) /\ PlainType(f.type) /\ f.bytes # <<>>) =>
              /\ Issued.mimeType = f.type
              /\ Issued.data = Base64(f.bytes)
              /\ Issued.data = AfterFirst(image, ",")]_vars

C15_Witness ==
    /\ IsIntent(event)
    /\ event.image = readAsDataURL(JpegFile)
    /\ inflight # <<>>
    /\ inflight[Len(inflight)].request.mimeType = JpegFile.type
    /\ inflight[Len(inflight)].request.data = <<"/", "9", "g", "=">>

\* C16: the configured key never changes; upload, read completion and reset
\* act on the four cells by rules that do not mention the key (so with no key
\* configured an upload reaches Ready and a reset reaches Empty exactly as
\* with one); the key is read only by an intent that holds an image, which
\* puts it in the call it issues; and a failure for lack of the key, thrown by
\* the client construction or returned by the service, ends with an error
\* stored and loading false.
C16_KeyOnlyAffectsAnalysis ==
    [][ /\ apiKey' = apiKey
        /\ event'.name = "upload" => UNCHANGED <<image, analysis, loading, error>>
        /\ event'.name = "loadend" =>
              /\ image' \in (IF event'.ok THEN DataURLs(event'.file) ELSE {nullURI})
              /\ analysis' = null /\ error' = null /\ loading' = loading
              /\ (event'.ok /\ ~loading) => Ready'
        /\ event'.name = "reset" =>
              /\ image' = nullURI /\ analysis' = null /\ error' = null /\ loading' = loading
              /\ ~loading => Empty'
        /\ Len(inflight') > Len(inflight) =>
              /\ IsIntent(event') /\ ~FalsyStr(image)
              /\ inflight'[Len(inflight')].apiKey = apiKey
        /\ (apiKey = "" /\ IsIntent(event') /\ event'.thrown # NotThrown) =>
              (Error' /\ ~loading')
        /\ (event'.name = "settled" /\ event'.call.apiKey = "") =>
              (~event'.outcome.ok /\ Error' /\ ~loading') ]_vars

C16_Witness ==
    /\ apiKey = ""
    /\ event.name = "settled"
    /\ event.call.apiKey = ""
    /\ ~FalsyStr(image)
    /\ Error /\ ~loading /\ ~Success

\* C17: loading is true exactly when a remote request is in flight; it is
\* set by the intent that issues a request, cleared by the settling of that
\* request, fulfilled or rejected, and left unchanged by upload, read
\* completion and reset.
C17_LoadingIffInFlight ==
    /\ [](loading <=> inflight # <<>>)
    /\ [][ /\ (~loading /\ loading') => (IsIntent(event') /\ Len(inflight') = Len(inflight) + 1)
           /\ (loading /\ ~loading') => event'.name = "settled"
           /\ event'.name = "settled" => ~loading'
           /\ event'.name \in {"upload", "loadend", "reset"} => loading' = loading ]_vars

C17_Witness ==
    /\ loading
    /\ inflight # <<>>
    /\ event.name = "reset"
    /\ FalsyStr(image)

\* C18: in every state in which no image is held, no analysis result and no
\* error are held either.
C18_NoResultWithoutImage == FalsyStr(image) => (Falsy(analysis) /\ Falsy(error))

\* how many of the four panels the render shows
PanelsShown ==
    (IF ReadyPanel THEN 1 ELSE 0) + (IF LoadingPanel THEN 1 ELSE 0)
      + (IF ErrorPanel THEN 1 ELSE 0) + (IF ResultPanel THEN 1 ELSE 0)

\* C19: in every state with an image held exactly one of the four panels is
\* shown, and the Analyze button and the Retry button are never offered together.
C19_ExactlyOnePanel ==
    /\ ~FalsyStr(image) => PanelsShown = 1
    /\ ~(AnalyzeOffered /\ RetryOffered)

\* C20: when several files are selected before their reads complete and the
\* reads succeed, the completion after which no read is pending leaves the image
\* of the most recently selected file held, whatever the order of completion; and
\* once the most recently selected file's image is held, the successful read
\* of an earlier selection changes neither the image nor the result
\* or error stored for it.
C20_LatestSelectionWins ==
    [][(event'.name = "loadend" /\ event'.ok) =>
          /\ (reads' = <<>> /\ latest'.loaded) =>
                image' \in DataURLs(latest.file)
          /\ (latest.loaded /\ image \in DataURLs(latest.file)) =>
                UNCHANGED <<image, analysis, error>> ]_vars

====
